---- MODULE Spec2Model ----
(***************************************************************************)
(* PulseLink audio streaming server (src/Linux/server.py, AudioServer).    *)
(*                                                                         *)
(* One control thread calls start() and stop(); every successful start()   *)
(* spawns a receive thread (_receive_loop) and a playback thread           *)
(* (_playback_loop).  stop() joins them with a timeout only, so threads of *)
(* an earlier session may still be alive in a later one: the threads are   *)
(* kept in the sequences rx and pb, one entry per spawned thread.          *)
(*                                                                         *)
(* Time is counted in poll periods of the socket (settimeout(0.5)): one    *)
(* Tick is 0.5 s, so the 3.0 s client timeout is 6 ticks.  The value       *)
(* time.time() - last_seen is kept as the field idle of the client.        *)
(*                                                                         *)
(* Granularity: a step of a thread is one access to the shared queue, one  *)
(* blocking call, or a block of statements that touches the shared fields  *)
(* of one concern only (lines 189-216 of the receive loop are one step).   *)
(* Each specification below combines the same actions with the inputs and  *)
(* bounds of one aspect of the server.                                     *)
(***************************************************************************)
EXTENDS Integers, Sequences, FiniteSets, TLC

(* ---------------- program constants ---------------- *)
QueueMaxSize == 6
EvictThreshold == 4
ReorderWindow == 1000
MinDatagram == 4
ClientTimeout == 6
LevelEvery == 2
\* server.py:192  struct.unpack('>I') yields 0..2^32-1; the checker's integers end at 2^31-1, and
\* only the order of two sequence numbers and their distance to 1000 matter to the code
MaxSeq == 2147483647
LevelFull == 1000
LevelGain == 2

(* ---------------- bounds of the model ---------------- *)
MaxStarts == 1
MaxPackets == 1
MaxIdle == 8
FlowPackets == 5
OneSession == 1
BusyStarts == 2
BusyPackets == 2
FlowStarts == 1
LifeStarts == 2
RecvPackets == 3
TimePackets == 3
StaleStarts == 3
StalePackets == 6
HaltStarts == 1
HaltPackets == 2
DevicePackets == 5
WindStarts == 2
WindPackets == 1
SkipPackets == 4
GainSamples == 5
NestStarts == 2
NestPackets == 1
SessStarts == 2
SessPackets == 2
AgainStarts == 2
AgainPackets == 2
MeterPackets == 5

(* ---------------- input sets ---------------- *)
Addrs == {"A", "B"}
Seqs == {0, 1, 1000, 1001, MaxSeq}
DLens == {3, 4, 6}
LifeSeqs == {0, 1}
TimeSeqs == {0, 1}
TimeDLens == {3, 6}
FlowAddrs == {"A"}
FlowDLens == {6}
MeterDLens == {6, 7}
\* RMS of a clipped chunk, in thousandths of full scale
FullScale == 32768
MaxSample == 32767
MinSample == -32768
VolumeGain == 4
Samples == {MinSample, -8192, 0, 8192, MaxSample}
RmsLevels == {0, 300, 1000}

VARIABLES
    state,      \* self.state: "stopped", "starting", "running", "stopping"
    running,    \* self._running
    socket,     \* self._socket: 0 is None, n > 0 the socket made by the n-th start()
    closed,     \* the sockets that have been closed
    filter_zi,  \* self._filter_zi: "none" or "zi"
    last_seq,   \* self._last_seq_num
    client,     \* self._current_client
    queue,      \* self._audio_queue: entries [id, len]; id 0 is the None sentinel, id n > 0 the payload of datagram n
    sd_available, \* SD_AVAILABLE, fixed when the module is imported
    ctl,        \* the control thread: where it is inside start() or stop()
    rx,         \* the receive threads, in spawn order
    pb,         \* the playback threads, in spawn order
    starts,     \* number of start() calls that passed the state check
    arrivals,   \* number of datagrams received so far
    lastCall,   \* the last call of start()/stop() and what it returned
    callSteps,  \* the steps the last call of start()/stop() has performed, in order
    emitted,    \* the callbacks invoked by the last step, in order
    enqLog,     \* payloads put on the queue by the receive path, in order
    popLog,     \* payloads taken from the queue by the playback loop, in order
    evicted,    \* payloads removed by the drop-oldest loop of the receive path
    drained,    \* payloads removed by the drain loop of stop()
    mono,       \* every datagram so far was well-formed, non-empty and had a larger seq than the one before
    prevSeq,    \* sequence number of the previous datagram (for mono)
    quiet,      \* ticks since a datagram from the current client's address was received
    afterTimeout, \* the client was cleared by the timeout path and no well-formed datagram has been handled since
    handled,    \* the datagram handled last, with last_seq and the client address as they were before
    lastProc,   \* the chunk processed last since the filter state was reset by start(); 0 is none
    sessBase,   \* number of datagrams that had been received when start() last reset last_seq
    present,    \* the address of the last connect callback not yet followed by a disconnect callback
    skipped,    \* the chunks whose processing raised, each with the place where it raised
    dsp         \* the sample pipeline on its own: input, filter state, filter output, written sample

vars == <<state, running, socket, closed, filter_zi, last_seq, client, queue,
          sd_available, ctl, rx, pb, starts, arrivals, lastCall, callSteps, emitted, enqLog, popLog,
          evicted, drained, mono, prevSeq, quiet, afterTimeout, handled,
          lastProc, sessBase, present, skipped, dsp>>

shared == <<state, running, socket, closed, filter_zi, last_seq, client, queue, sd_available>>
logs == <<enqLog, popLog, evicted, drained>>
mons == <<mono, prevSeq, quiet, afterTimeout, handled>>
hist == <<lastProc, sessBase, present, skipped, dsp>>

(* ---------------- values ---------------- *)
NoClient == [address |-> "none", idle |-> 0, packet_count |-> 0]
NoPkt == [seq |-> -1, addr |-> "none", dlen |-> 0, id |-> 0]
NoHandled == [seq |-> -1, last |-> -1, addr |-> "none", dlen |-> 0, prev |-> "none"]
NoDsp == [n |-> 0, x |-> 0, y |-> 0, out |-> 0, z0 |-> 0, z1 |-> 0, live |-> FALSE, steady |-> TRUE]
NoCall == [op |-> "none", ret |-> "none"]
Sentinel == [id |-> 0, len |-> 0]
Ev(e, a) == [ev |-> e, arg |-> a, id |-> 0, val |-> 0]
EvChunk(e, n) == [ev |-> e, arg |-> "chunk", id |-> n, val |-> 0]
EvLevel(n, v) == [ev |-> "level", arg |-> "chunk", id |-> n, val |-> v]

NewRx == [pc |-> "top", rs |-> 0, waited |-> FALSE, pkt |-> NoPkt]
NewPb == [pc |-> "init", item |-> Sentinel, level_counter |-> 0, filt |-> -1, processed |-> 0]

RxIds == 1..Len(rx)
PbIds == 1..Len(pb)

(* ---------------- pure helpers ---------------- *)
\* the window test with <= in place of <
IsDuplicateInclusive(seq, last) == seq <= last /\ last - seq <= ReorderWindow

\* server.py:196  seq_num <= self._last_seq_num and self._last_seq_num - seq_num < 1000
IsDuplicate(seq, last) == seq <= last /\ last - seq < ReorderWindow

\* server.py:189  len(data) < 4
IsShortNever(dlen) == FALSE
IsShort(dlen) == dlen < MinDatagram

\* a payload length that counts the 4 header bytes
PayloadLenWhole(dlen) == dlen

\* server.py:193,218  audio_data = data[4:]; len(audio_data) > 0
PayloadLen(dlen) == IF dlen > MinDatagram THEN dlen - MinDatagram ELSE 0

\* a start() that also goes on from RUNNING
StartAllowedRunning == state \in {"stopped", "running"}

\* server.py:103  start() goes on only from STOPPED
StartAllowed == state = "stopped"

\* a stop() that goes on from every state but STOPPING
StopAllowedAny == state # "stopping"

\* server.py:144  stop() goes on only from RUNNING or STARTING
StopAllowed == state \in {"running", "starting"}

\* a put that ignores maxsize, and a put at the wrong end
PutAlways(q, x) == Append(q, x)
PutNowaitFront(q, x) == IF Len(q) >= QueueMaxSize THEN q ELSE <<x>> \o q

\* queue.Queue.put_nowait: raises queue.Full at maxsize, else appends
QueueFull(q) == Len(q) >= QueueMaxSize
PutNowait(q, x) == IF QueueFull(q) THEN q ELSE Append(q, x)

\* an eviction loop that starts one entry early
NeedsEvictEarly(q) == Len(q) >= EvictThreshold - 1

\* server.py:219  while self._audio_queue.qsize() >= 4
NeedsEvict(q) == Len(q) >= EvictThreshold

\* a get that leaves the entry in the queue
GetRestKeep(q) == q

\* queue.Queue.get_nowait on a non-empty queue: removes the oldest entry
GetRest(q) == Tail(q)

\* a level that is not capped at 1.0
LevelUncapped(rms) == LevelGain * rms

\* server.py:295-296  min(1.0, rms * 2), in thousandths
Level(rms) == IF LevelGain * rms > LevelFull THEN LevelFull ELSE LevelGain * rms

\* a timeout that fires at 3.0 s already
TimedOutAtLimit(c) == c.idle >= ClientTimeout

\* server.py:231  time.time() - self._current_client.last_seen > 3.0
TimedOut(c) == c.idle > ClientTimeout

(* ---------------- initial state: AudioServer.__init__ ---------------- *)
Init ==
    /\ state = "stopped"
    /\ running = FALSE
    /\ socket = 0
    /\ closed = {}
    /\ filter_zi = "none"
    /\ last_seq = -1
    /\ client = NoClient
    /\ queue = <<>>
    /\ sd_available \in BOOLEAN
    /\ ctl = "idle"
    /\ rx = <<>>
    /\ pb = <<>>
    /\ starts = 0
    /\ arrivals = 0
    /\ lastCall = NoCall
    /\ callSteps = <<>>
    /\ emitted = <<>>
    /\ enqLog = <<>>
    /\ popLog = <<>>
    /\ evicted = {}
    /\ drained = {}
    /\ mono = TRUE
    /\ prevSeq = -1
    /\ quiet = 0
    /\ afterTimeout = FALSE
    /\ handled = NoHandled
    /\ lastProc = 0
    /\ sessBase = 0
    /\ present = "none"
    /\ skipped = {}
    /\ dsp = NoDsp

(* ======================= control thread: start() ======================= *)

\* server.py:103-104  start() when the state is not STOPPED
StartRejected ==
    /\ ctl = "idle"
    /\ ~StartAllowed
    /\ lastCall' = [op |-> "start", ret |-> "false"]
    /\ callSteps' = <<>>
    /\ emitted' = <<>>
    /\ UNCHANGED <<hist, shared, ctl, rx, pb, starts, arrivals, logs, mons>>

\* server.py:103-106  state check, _set_state(STARTING)
StartBegin(maxStarts) ==
    /\ ctl = "idle"
    /\ StartAllowed
    /\ starts < maxStarts
    /\ starts' = starts + 1
    /\ state' = "starting"
    /\ ctl' = "start_reset"
    /\ lastCall' = [op |-> "start", ret |-> "pending"]
    /\ callSteps' = <<"starting">>
    /\ emitted' = <<Ev("state", "starting")>>
    /\ UNCHANGED <<hist, sd_available, running, socket, closed, filter_zi, last_seq, client, queue,
                   rx, pb, arrivals, logs, mons>>

\* server.py:107-108  reset of _last_seq_num and of the filter state
StartReset ==
    /\ ctl = "start_reset"
    /\ last_seq' = -1
    /\ filter_zi' = "zi"
    /\ ctl' = "start_socket"
    /\ callSteps' = Append(callSteps, "reset")
    /\ lastProc' = 0
    /\ sessBase' = arrivals
    /\ emitted' = <<>>
    /\ UNCHANGED <<present, skipped, dsp, sd_available, state, running, socket, closed, client, queue, rx, pb,
                   starts, arrivals, lastCall, logs, mons>>

\* server.py:111-117  socket created, configured and bound, then _running = True
StartSocket ==
    /\ ctl = "start_socket"
    /\ socket' = starts
    /\ running' = TRUE
    /\ ctl' = "start_rx"
    /\ callSteps' = Append(callSteps, "socket")
    /\ emitted' = <<>>
    /\ UNCHANGED <<hist, sd_available, state, closed, filter_zi, last_seq, client, queue, rx, pb,
                   starts, arrivals, lastCall, logs, mons>>

\* server.py:111-115  socket() raises: self._socket keeps its value;
\* setsockopt/bind/settimeout raises: self._socket is the new, unbound socket
StartSocketFails ==
    /\ ctl = "start_socket"
    /\ \E made \in BOOLEAN : socket' = IF made THEN starts ELSE socket
    /\ ctl' = "start_fail"
    /\ callSteps' = Append(callSteps, "socket_failed")
    /\ emitted' = <<>>
    /\ UNCHANGED <<hist, sd_available, state, running, closed, filter_zi, last_seq, client, queue, rx, pb,
                   starts, arrivals, lastCall, logs, mons>>

\* server.py:119-124  the receive thread is created and started
StartSpawnRx ==
    /\ ctl = "start_rx"
    /\ rx' = Append(rx, NewRx)
    /\ ctl' = "start_pb"
    /\ callSteps' = Append(callSteps, "rx")
    /\ emitted' = <<>>
    /\ UNCHANGED <<hist, shared, pb, starts, arrivals, lastCall, logs, mons>>

\* server.py:126-131  the playback thread is created and started
StartSpawnPb ==
    /\ ctl = "start_pb"
    /\ pb' = Append(pb, NewPb)
    /\ ctl' = "start_done"
    /\ callSteps' = Append(callSteps, "pb")
    /\ emitted' = <<>>
    /\ UNCHANGED <<hist, shared, rx, starts, arrivals, lastCall, logs, mons>>

\* server.py:124,131  Thread.start() raises (no new thread can be started)
StartSpawnFails ==
    /\ ctl \in {"start_rx", "start_pb"}
    /\ ctl' = "start_fail"
    /\ callSteps' = Append(callSteps, "spawn_failed")
    /\ emitted' = <<>>
    /\ UNCHANGED <<hist, shared, rx, pb, starts, arrivals, lastCall, logs, mons>>

\* a start() that reports RUNNING once the socket is bound, before any thread is spawned
StartDoneEarly ==
    /\ ctl = "start_rx"
    /\ state' = "running"
    /\ ctl' = "idle"
    /\ lastCall' = [op |-> "start", ret |-> "true"]
    /\ callSteps' = Append(callSteps, "running")
    /\ emitted' = <<Ev("state", "running")>>
    /\ UNCHANGED <<hist, sd_available, running, socket, closed, filter_zi, last_seq, client, queue, rx, pb,
                   starts, arrivals, logs, mons>>

\* server.py:133-135  _set_state(RUNNING); return True
StartDone ==
    /\ ctl = "start_done"
    /\ state' = "running"
    /\ ctl' = "idle"
    /\ lastCall' = [op |-> "start", ret |-> "true"]
    /\ callSteps' = Append(callSteps, "running")
    /\ emitted' = <<Ev("state", "running")>>
    /\ UNCHANGED <<hist, sd_available, running, socket, closed, filter_zi, last_seq, client, queue, rx, pb,
                   starts, arrivals, logs, mons>>

\* a failed start() that does not invoke the error callback
StartFailSilent ==
    /\ ctl = "start_fail"
    /\ state' = "stopped"
    /\ ctl' = "idle"
    /\ lastCall' = [op |-> "start", ret |-> "false"]
    /\ callSteps' = Append(callSteps, "stopped")
    /\ emitted' = <<Ev("state", "stopped")>>
    /\ UNCHANGED <<hist, sd_available, running, socket, closed, filter_zi, last_seq, client, queue, rx, pb,
                   starts, arrivals, logs, mons>>

\* server.py:137-141  except: _set_state(STOPPED); on_error(...); return False
StartFail ==
    /\ ctl = "start_fail"
    /\ state' = "stopped"
    /\ ctl' = "idle"
    /\ lastCall' = [op |-> "start", ret |-> "false"]
    /\ callSteps' = Append(callSteps, "stopped")
    /\ emitted' = <<Ev("state", "stopped"), Ev("error", "start")>>
    /\ UNCHANGED <<hist, sd_available, running, socket, closed, filter_zi, last_seq, client, queue, rx, pb,
                   starts, arrivals, logs, mons>>

(* ======================= control thread: stop() ======================= *)

\* a rejected stop() that still announces STOPPED
StopRejectedNotifies ==
    /\ ctl = "idle"
    /\ ~StopAllowed
    /\ lastCall' = [op |-> "stop", ret |-> "ignored"]
    /\ callSteps' = <<>>
    /\ emitted' = <<Ev("state", "stopped")>>
    /\ UNCHANGED <<hist, shared, ctl, rx, pb, starts, arrivals, logs, mons>>

\* server.py:144-145  stop() when the state is neither RUNNING nor STARTING
StopRejected ==
    /\ ctl = "idle"
    /\ ~StopAllowed
    /\ lastCall' = [op |-> "stop", ret |-> "ignored"]
    /\ callSteps' = <<>>
    /\ emitted' = <<>>
    /\ UNCHANGED <<hist, shared, ctl, rx, pb, starts, arrivals, logs, mons>>

\* a stop() that moves to STOPPING without the state-change callback
StopBeginSilent ==
    /\ ctl = "idle"
    /\ StopAllowed
    /\ state' = "stopping"
    /\ ctl' = "stop_flag"
    /\ lastCall' = [op |-> "stop", ret |-> "pending"]
    /\ callSteps' = <<"stopping">>
    /\ emitted' = <<>>
    /\ UNCHANGED <<hist, sd_available, running, socket, closed, filter_zi, last_seq, client, queue, rx, pb,
                   starts, arrivals, logs, mons>>

\* server.py:144-148  state check, _set_state(STOPPING)
StopBegin ==
    /\ ctl = "idle"
    /\ StopAllowed
    /\ state' = "stopping"
    /\ ctl' = "stop_flag"
    /\ lastCall' = [op |-> "stop", ret |-> "pending"]
    /\ callSteps' = <<"stopping">>
    /\ emitted' = <<Ev("state", "stopping")>>
    /\ UNCHANGED <<hist, sd_available, running, socket, closed, filter_zi, last_seq, client, queue, rx, pb,
                   starts, arrivals, logs, mons>>

\* a stop() that leaves the running flag as it is
StopFlagKeeps ==
    /\ ctl = "stop_flag"
    /\ ctl' = "stop_sentinel"
    /\ callSteps' = Append(callSteps, "flag")
    /\ emitted' = <<>>
    /\ UNCHANGED <<hist, shared, rx, pb, starts, arrivals, lastCall, logs, mons>>

\* server.py:149  _running = False
StopFlag ==
    /\ ctl = "stop_flag"
    /\ running' = FALSE
    /\ ctl' = "stop_sentinel"
    /\ callSteps' = Append(callSteps, "flag")
    /\ emitted' = <<>>
    /\ UNCHANGED <<hist, sd_available, state, socket, closed, filter_zi, last_seq, client, queue, rx, pb,
                   starts, arrivals, lastCall, logs, mons>>

\* server.py:151-154  put_nowait(None); a full queue is ignored
StopSentinel ==
    /\ ctl = "stop_sentinel"
    /\ queue' = PutNowait(queue, Sentinel)
    /\ ctl' = "stop_close"
    /\ callSteps' = Append(callSteps, "sentinel")
    /\ emitted' = <<>>
    /\ UNCHANGED <<hist, sd_available, state, running, socket, closed, filter_zi, last_seq, client, rx, pb,
                   starts, arrivals, lastCall, logs, mons>>

\* a stop() that clears the client when it closes the socket
StopCloseClears ==
    /\ ctl = "stop_close"
    /\ closed' = IF socket # 0 THEN closed \cup {socket} ELSE closed
    /\ socket' = 0
    /\ client' = NoClient
    /\ ctl' = "stop_join"
    /\ callSteps' = Append(callSteps, "close")
    /\ emitted' = <<>>
    /\ UNCHANGED <<hist, sd_available, state, running, filter_zi, last_seq, queue, rx, pb,
                   starts, arrivals, lastCall, logs, mons>>

\* server.py:156-163  sleep; the socket is closed and self._socket = None
StopClose ==
    /\ ctl = "stop_close"
    /\ closed' = IF socket # 0 THEN closed \cup {socket} ELSE closed
    /\ socket' = 0
    /\ ctl' = "stop_join"
    /\ callSteps' = Append(callSteps, "close")
    /\ emitted' = <<>>
    /\ UNCHANGED <<hist, sd_available, state, running, filter_zi, last_seq, client, queue, rx, pb,
                   starts, arrivals, lastCall, logs, mons>>

\* a stop() that does not drain the queue after the joins
StopJoinNoDrain ==
    /\ ctl = "stop_join"
    /\ ctl' = "stop_clear"
    /\ callSteps' = Append(callSteps, "join")
    /\ emitted' = <<>>
    /\ UNCHANGED <<hist, shared, rx, pb, starts, arrivals, lastCall, logs, mons>>

\* server.py:165-169  join(timeout=0.5) of both threads: returns whether or not they ended
StopJoin ==
    /\ ctl = "stop_join"
    /\ ctl' = "stop_drain"
    /\ callSteps' = Append(callSteps, "join")
    /\ emitted' = <<>>
    /\ UNCHANGED <<hist, shared, rx, pb, starts, arrivals, lastCall, logs, mons>>

\* server.py:171-175  while not empty(): get_nowait()  -- one iteration
StopDrainOne ==
    /\ ctl = "stop_drain"
    /\ queue # <<>>
    /\ queue' = GetRest(queue)
    /\ drained' = IF Head(queue).id # 0 THEN drained \cup {Head(queue).id} ELSE drained
    /\ callSteps' = callSteps
    /\ emitted' = <<>>
    /\ UNCHANGED <<hist, sd_available, state, running, socket, closed, filter_zi, last_seq, client, ctl, rx, pb,
                   starts, arrivals, lastCall, enqLog, popLog, evicted, mons>>

\* server.py:171  the queue is empty: the drain loop ends
StopDrainEnd ==
    /\ ctl = "stop_drain"
    /\ queue = <<>>
    /\ ctl' = "stop_clear"
    /\ callSteps' = Append(callSteps, "drain")
    /\ emitted' = <<>>
    /\ UNCHANGED <<hist, shared, rx, pb, starts, arrivals, lastCall, logs, mons>>

\* server.py:177  self._current_client = None
StopClear ==
    /\ ctl = "stop_clear"
    /\ client' = NoClient
    /\ ctl' = "stop_done"
    /\ callSteps' = Append(callSteps, "clear")
    /\ emitted' = <<>>
    /\ UNCHANGED <<hist, sd_available, state, running, socket, closed, filter_zi, last_seq, queue, rx, pb,
                   starts, arrivals, lastCall, logs, mons>>

\* server.py:178  _set_state(STOPPED)
StopDone ==
    /\ ctl = "stop_done"
    /\ state' = "stopped"
    /\ ctl' = "idle"
    /\ lastCall' = [op |-> "stop", ret |-> "done"]
    /\ callSteps' = Append(callSteps, "stopped")
    /\ emitted' = <<Ev("state", "stopped")>>
    /\ UNCHANGED <<hist, sd_available, running, socket, closed, filter_zi, last_seq, client, queue, rx, pb,
                   starts, arrivals, logs, mons>>

\* server.py:100,143-179  the state-change callback invoked for STARTING calls stop(): the
\* whole of stop() runs inside start(), on the same thread, before line 107
StopFromCallback ==
    /\ ctl = "start_reset"
    /\ StopAllowed
    /\ "stop" \notin {callSteps[i] : i \in 1..Len(callSteps)}
    /\ state' = "stopped"
    /\ running' = FALSE
    /\ closed' = IF socket # 0 THEN closed \cup {socket} ELSE closed
    /\ socket' = 0
    /\ queue' = <<>>
    /\ drained' = drained \cup {queue[i].id : i \in 1..Len(queue)}
    /\ client' = NoClient
    /\ callSteps' = Append(callSteps, "stop")
    /\ emitted' = <<Ev("state", "stopping"), Ev("state", "stopped")>>
    /\ UNCHANGED <<hist, sd_available, filter_zi, last_seq, ctl, rx, pb, starts, arrivals, lastCall,
                   enqLog, popLog, evicted, mons>>

(* ======================= receive thread: _receive_loop ======================= *)

RxSet(t, r) == [rx EXCEPT ![t] = r]
RxGoTop(t) == RxSet(t, [rx[t] EXCEPT !.pc = "top", !.pkt = NoPkt, !.waited = FALSE])

\* server.py:182-187  while self._running; if not self._socket: break; the receive call begins
RxTop(t) ==
    /\ rx[t].pc = "top"
    /\ rx' = IF running /\ socket # 0
             THEN RxSet(t, [rx[t] EXCEPT !.pc = "recv", !.rs = socket, !.waited = FALSE])
             ELSE RxSet(t, [rx[t] EXCEPT !.pc = "done"])
    /\ emitted' = <<>>
    /\ UNCHANGED <<hist, shared, ctl, callSteps, pb, starts, arrivals, lastCall, logs, mons>>

\* server.py:187  recvfrom returns a datagram (seq, addr, length in bytes)
RxRecvData(t, SeqSet, AddrSet, DLenSet, maxPk) ==
    /\ rx[t].pc = "recv"
    /\ rx[t].rs \notin closed
    /\ arrivals < maxPk
    /\ \E dlen \in DLenSet, addr \in AddrSet :
         \E seq \in (IF IsShort(dlen) THEN {0} ELSE SeqSet) :
            /\ rx' = RxSet(t, [rx[t] EXCEPT !.pc = "handle",
                                  !.pkt = [seq |-> seq, addr |-> addr, dlen |-> dlen,
                                           id |-> arrivals + 1]])
            /\ mono' = (mono /\ PayloadLen(dlen) > 0 /\ seq > prevSeq)
            /\ prevSeq' = seq
            /\ quiet' = IF client # NoClient /\ client.address = addr THEN 0 ELSE quiet
    /\ arrivals' = arrivals + 1
    /\ emitted' = <<>>
    /\ UNCHANGED <<hist, shared, ctl, callSteps, pb, starts, lastCall, logs, afterTimeout, handled>>

\* The connect and disconnect callbacks seen so far: the address with a connect outstanding
RECURSIVE PresenceAfter(_, _)
PresenceAfter(pr, evs) ==
    IF evs = <<>> THEN pr
    ELSE PresenceAfter(IF Head(evs).ev = "connect" THEN Head(evs).arg
                       ELSE IF Head(evs).ev = "disconnect" THEN "none"
                       ELSE pr,
                       Tail(evs))

\* server.py:229-235  socket.timeout: the client is dropped when idle for more than 3.0 s
RxRecvTimeout(t) ==
    /\ rx[t].pc = "recv"
    /\ rx[t].waited
    /\ IF client # NoClient /\ TimedOut(client)
       THEN /\ emitted' = <<Ev("disconnect", client.address)>>
            /\ client' = NoClient
            /\ quiet' = 0
            /\ afterTimeout' = TRUE
       ELSE /\ emitted' = <<>>
            /\ UNCHANGED <<client, quiet, afterTimeout>>
    /\ rx' = RxGoTop(t)
    /\ present' = PresenceAfter(present, emitted')
    /\ UNCHANGED <<lastProc, sessBase, skipped, dsp,
                   state, running, socket, closed, filter_zi, last_seq, queue, sd_available,
                   ctl, callSteps, pb, starts, arrivals, lastCall, logs, mono, prevSeq, handled>>

\* server.py:236-237  OSError from a receive call on a closed socket: break
RxRecvClosed(t) ==
    /\ rx[t].pc = "recv"
    /\ rx[t].rs \in closed
    /\ rx' = RxSet(t, [rx[t] EXCEPT !.pc = "done"])
    /\ emitted' = <<>>
    /\ UNCHANGED <<hist, shared, ctl, callSteps, pb, starts, arrivals, lastCall, logs, mons>>

\* server.py:187,236-237  recvfrom on the open socket raises an OSError other than a timeout:
\* break, with no print and no callback
RxSocketError(t) ==
    /\ rx[t].pc = "recv"
    /\ rx[t].rs \notin closed
    /\ rx' = RxSet(t, [rx[t] EXCEPT !.pc = "done"])
    /\ emitted' = <<>>
    /\ UNCHANGED <<hist, shared, ctl, callSteps, pb, starts, arrivals, lastCall, logs, mons>>

\* server.py:201-216  client tracking for an accepted datagram from addr
TrackClient(c, addr) ==
    IF c = NoClient \/ c.address # addr
    THEN [address |-> addr, idle |-> 0, packet_count |-> 1]
    ELSE [c EXCEPT !.idle = 0, !.packet_count = @ + 1]

\* server.py:202-213  callbacks of the client tracking, in call order
TrackEvents(c, addr) ==
    IF c = NoClient THEN <<Ev("connect", addr)>>
    ELSE IF c.address # addr THEN <<Ev("disconnect", c.address), Ev("connect", addr)>>
    ELSE <<>>

\* server.py:189-216  length check, dedupe, last_seq update, client tracking
RxHandle(t) ==
    /\ rx[t].pc = "handle"
    /\ handled' = [seq |-> rx[t].pkt.seq, last |-> last_seq, addr |-> rx[t].pkt.addr,
                   dlen |-> rx[t].pkt.dlen, prev |-> client.address]
    /\ LET p == rx[t].pkt IN
       IF IsShort(p.dlen)
       THEN /\ rx' = RxGoTop(t)
            /\ emitted' = <<>>
            /\ UNCHANGED <<last_seq, client, quiet, afterTimeout>>
       ELSE IF IsDuplicate(p.seq, last_seq)
       THEN /\ rx' = RxGoTop(t)
            /\ emitted' = <<>>
            /\ afterTimeout' = FALSE
            /\ UNCHANGED <<last_seq, client, quiet>>
       ELSE /\ last_seq' = p.seq
            /\ client' = TrackClient(client, p.addr)
            /\ emitted' = TrackEvents(client, p.addr)
            /\ quiet' = 0
            /\ afterTimeout' = FALSE
            /\ rx' = IF PayloadLen(p.dlen) > 0
                     THEN RxSet(t, [rx[t] EXCEPT !.pc = "evict"])
                     ELSE RxGoTop(t)
    /\ present' = PresenceAfter(present, emitted')
    /\ UNCHANGED <<lastProc, sessBase, skipped, dsp,
                   state, running, socket, closed, filter_zi, queue, sd_available,
                   ctl, callSteps, pb, starts, arrivals, lastCall, logs, mono, prevSeq>>

\* server.py:219  while self._audio_queue.qsize() >= 4
RxEvict(t) ==
    /\ rx[t].pc = "evict"
    /\ rx' = RxSet(t, [rx[t] EXCEPT !.pc = IF NeedsEvict(queue) THEN "evict_get" ELSE "put"])
    /\ emitted' = <<>>
    /\ UNCHANGED <<hist, shared, ctl, callSteps, pb, starts, arrivals, lastCall, logs, mons>>

\* server.py:220-223  get_nowait() drops the oldest entry; an empty queue breaks the loop
RxEvictGet(t) ==
    /\ rx[t].pc = "evict_get"
    /\ IF queue = <<>>
       THEN /\ rx' = RxSet(t, [rx[t] EXCEPT !.pc = "put"])
            /\ UNCHANGED <<queue, evicted>>
       ELSE /\ rx' = RxSet(t, [rx[t] EXCEPT !.pc = "evict"])
            /\ queue' = GetRest(queue)
            /\ evicted' = IF Head(queue).id # 0 THEN evicted \cup {Head(queue).id} ELSE evicted
    /\ emitted' = <<>>
    /\ UNCHANGED <<hist, state, running, socket, closed, filter_zi, last_seq, client, sd_available,
                   ctl, callSteps, pb, starts, arrivals, lastCall, enqLog, popLog, drained, mons>>

\* server.py:224-227  put_nowait(audio_data); queue.Full is ignored
RxPut(t) ==
    /\ rx[t].pc = "put"
    /\ LET item == [id |-> rx[t].pkt.id, len |-> PayloadLen(rx[t].pkt.dlen)] IN
         /\ queue' = PutNowait(queue, item)
         /\ enqLog' = IF Len(queue') > Len(queue) THEN Append(enqLog, item.id) ELSE enqLog
    /\ rx' = RxGoTop(t)
    /\ emitted' = <<>>
    /\ UNCHANGED <<hist, state, running, socket, closed, filter_zi, last_seq, client, sd_available,
                   ctl, callSteps, pb, starts, arrivals, lastCall, popLog, evicted, drained, mons>>

(* ======================= playback thread: _playback_loop ======================= *)

PbSet(p, r) == [pb EXCEPT ![p] = r]

\* server.py:243-246  sounddevice is missing: error callback, return
PbNoDevice(p) ==
    /\ pb[p].pc = "init"
    /\ ~sd_available
    /\ pb' = PbSet(p, [pb[p] EXCEPT !.pc = "done"])
    /\ emitted' = <<Ev("error", "sounddevice")>>
    /\ UNCHANGED <<hist, shared, ctl, callSteps, rx, starts, arrivals, lastCall, logs, mons>>

\* server.py:248-264  copy of the filter state, the output stream opens and starts
PbInit(p) ==
    /\ pb[p].pc = "init"
    /\ sd_available
    /\ pb' = PbSet(p, [pb[p] EXCEPT !.pc = "loop",
                          !.filt = IF filter_zi = "none" THEN -1 ELSE 0,
                          !.level_counter = 0])
    /\ emitted' = <<>>
    /\ UNCHANGED <<hist, shared, ctl, callSteps, rx, starts, arrivals, lastCall, logs, mons>>

\* a failure to open the device that also clears the running flag
PbOpenFailsStops(p) ==
    /\ pb[p].pc = "init"
    /\ sd_available
    /\ pb' = PbSet(p, [pb[p] EXCEPT !.pc = "done"])
    /\ running' = FALSE
    /\ emitted' = <<>>
    /\ UNCHANGED <<hist, state, socket, closed, filter_zi, last_seq, client, queue, sd_available,
                   ctl, callSteps, rx, starts, arrivals, lastCall, logs, mons>>

\* server.py:254-261,309-321  OutputStream() or stream.start() raises: printed, the thread ends
PbOpenFails(p) ==
    /\ pb[p].pc = "init"
    /\ sd_available
    /\ pb' = PbSet(p, [pb[p] EXCEPT !.pc = "done"])
    /\ emitted' = <<>>
    /\ UNCHANGED <<hist, shared, ctl, callSteps, rx, starts, arrivals, lastCall, logs, mons>>

\* server.py:266  while self._running
PbLoop(p) ==
    /\ pb[p].pc = "loop"
    /\ pb' = PbSet(p, [pb[p] EXCEPT !.pc = IF running THEN "get" ELSE "done"])
    /\ emitted' = <<>>
    /\ UNCHANGED <<hist, shared, ctl, callSteps, rx, starts, arrivals, lastCall, logs, mons>>

\* server.py:268-271  get(timeout=0.05) returns an entry; the sentinel ends the loop
PbGet(p) ==
    /\ pb[p].pc = "get"
    /\ queue # <<>>
    /\ queue' = GetRest(queue)
    /\ IF Head(queue).id = 0
       THEN /\ pb' = PbSet(p, [pb[p] EXCEPT !.pc = "done"])
            /\ UNCHANGED popLog
       ELSE /\ pb' = PbSet(p, [pb[p] EXCEPT !.pc = "proc", !.item = Head(queue)])
            /\ popLog' = Append(popLog, Head(queue).id)
    /\ emitted' = <<>>
    /\ UNCHANGED <<hist, state, running, socket, closed, filter_zi, last_seq, client, sd_available,
                   ctl, callSteps, rx, starts, arrivals, lastCall, enqLog, evicted, drained, mons>>

\* a starved pop that reports nothing
PbStarvedSilent(p) ==
    /\ pb[p].pc = "get"
    /\ queue = <<>>
    /\ pb' = PbSet(p, [pb[p] EXCEPT !.pc = "loop"])
    /\ emitted' = <<>>
    /\ UNCHANGED <<hist, shared, ctl, callSteps, rx, starts, arrivals, lastCall, logs, mons>>

\* server.py:301-304  queue.Empty after the timeout: level 0.0 is reported
PbStarved(p) ==
    /\ pb[p].pc = "get"
    /\ queue = <<>>
    /\ pb' = PbSet(p, [pb[p] EXCEPT !.pc = "loop"])
    /\ emitted' = <<Ev("level", "zero")>>
    /\ UNCHANGED <<hist, shared, ctl, callSteps, rx, starts, arrivals, lastCall, logs, mons>>

\* a loop that counts a payload for the level callback before it converts it
PbProcCounts(p) ==
    /\ pb[p].pc = "proc"
    /\ LET it == pb[p].item
           lc == pb[p].level_counter + 1 IN
       IF it.len % 2 # 0
       THEN /\ pb' = PbSet(p, [pb[p] EXCEPT !.pc = "loop", !.item = Sentinel,
                                           !.level_counter = IF lc >= LevelEvery THEN 0 ELSE lc])
            /\ emitted' = <<>>
            /\ skipped' = skipped \cup {[id |-> it.id, at |-> "convert"]}
            /\ UNCHANGED lastProc
       ELSE /\ pb' = PbSet(p, [pb[p] EXCEPT
                       !.pc = IF running THEN "write" ELSE "loop",
                       !.item = IF running THEN it ELSE Sentinel,
                       !.filt = IF @ = -1 THEN -1 ELSE it.id,
                       !.level_counter = IF lc >= LevelEvery THEN 0 ELSE lc,
                       !.processed = @ + 1])
            /\ \E rms \in RmsLevels :
                 emitted' = IF lc >= LevelEvery THEN <<EvLevel(it.id, Level(rms))>> ELSE <<>>
            /\ lastProc' = it.id
            /\ UNCHANGED skipped
    /\ UNCHANGED <<sessBase, present, dsp,
                   shared, ctl, callSteps, rx, starts, arrivals, lastCall, logs, mons>>

\* server.py:273-299,305-307  convert, filter, gain, clip, meter; a payload of odd length
\* raises in np.frombuffer and is skipped
PbProc(p) ==
    /\ pb[p].pc = "proc"
    /\ LET it == pb[p].item
           lc == pb[p].level_counter + 1 IN
       IF it.len % 2 # 0
       THEN /\ pb' = PbSet(p, [pb[p] EXCEPT !.pc = "loop", !.item = Sentinel])
            /\ emitted' = <<>>
            /\ skipped' = skipped \cup {[id |-> it.id, at |-> "convert"]}
            /\ UNCHANGED lastProc
       ELSE /\ pb' = PbSet(p, [pb[p] EXCEPT
                       !.pc = IF running THEN "write" ELSE "loop",
                       !.item = IF running THEN it ELSE Sentinel,
                       !.filt = IF @ = -1 THEN -1 ELSE it.id,
                       !.level_counter = IF lc >= LevelEvery THEN 0 ELSE lc,
                       !.processed = @ + 1])
            /\ \E rms \in RmsLevels :
                 emitted' = IF lc >= LevelEvery THEN <<EvLevel(it.id, Level(rms))>> ELSE <<>>
            /\ lastProc' = it.id
            /\ UNCHANGED skipped
    /\ UNCHANGED <<sessBase, present, dsp,
                   shared, ctl, callSteps, rx, starts, arrivals, lastCall, logs, mons>>

\* server.py:299  stream.write(audio_float)
PbWrite(p) ==
    /\ pb[p].pc = "write"
    /\ pb' = PbSet(p, [pb[p] EXCEPT !.pc = "loop", !.item = Sentinel])
    /\ emitted' = <<EvChunk("write", pb[p].item.id)>>
    /\ UNCHANGED <<hist, shared, ctl, callSteps, rx, starts, arrivals, lastCall, logs, mons>>

\* server.py:299,305-307  stream.write raises (the device was lost): the exception is caught
\* inside the loop, after the filter state and the level counter were updated at 278-294
PbWriteFails(p) ==
    /\ pb[p].pc = "write"
    /\ pb' = PbSet(p, [pb[p] EXCEPT !.pc = "loop", !.item = Sentinel])
    /\ emitted' = <<>>
    /\ skipped' = skipped \cup {[id |-> pb[p].item.id, at |-> "write"]}
    /\ UNCHANGED <<lastProc, sessBase, present, dsp,
                   shared, ctl, callSteps, rx, starts, arrivals, lastCall, logs, mons>>

(* ======================= the sample pipeline of _playback_loop ======================= *)

\* Sample values are integers in units of 1/32768 (server.py:275: int16 / 32768.0), so 1.0 is
\* FullScale.  Filter coefficients are in thousandths: FilterA[1] stands for a0 = 1.0.
\* server.py:77-80  signal.butter(2, 10000 / 24000, btype='low')
FilterB == <<220, 440, 220>>
FilterA == <<1000, -308, 188>>

\* the product of a coefficient and a value
Coef(c, v) == (c * v) \div FilterA[1]

\* server.py:108  signal.lfilter_zi(b, a): the state of the filter in the steady state of a
\* unit step, [b1 + b2 - a1 - a2, b2 - a2] for a0 = 1
FilterZi == <<Coef(FilterB[2] + FilterB[3] - FilterA[2] - FilterA[3], FullScale),
              Coef(FilterB[3] - FilterA[3], FullScale)>>

\* server.py:279-282  signal.lfilter for one sample, direct form II transposed
FilterOut(x, z0) == Coef(FilterB[1], x) + z0
FilterState(x, y, z1) ==
    <<Coef(FilterB[2], x) + z1 - Coef(FilterA[2], y), Coef(FilterB[3], x) - Coef(FilterA[3], y)>>

\* a clip that lets every value through
ClipNone(v) == v

\* server.py:288  np.clip(audio_float, -1.0, 1.0)
Clip(v) == IF v > FullScale THEN FullScale ELSE IF v < -FullScale THEN -FullScale ELSE v

\* server.py:287  audio_float * self.VOLUME_GAIN
Gain(v) == VolumeGain * v

\* server.py:108,249  start() resets the filter state and the playback thread takes its copy
DspReset ==
    /\ dsp' = [NoDsp EXCEPT !.z0 = FilterZi[1], !.z1 = FilterZi[2], !.live = TRUE]
    /\ UNCHANGED <<lastProc, sessBase, present, skipped, shared, ctl, callSteps, rx, pb, starts,
                   arrivals, lastCall, emitted, logs, mons>>

\* server.py:274-289  one sample of a chunk: converted, filtered, amplified and clipped
DspSample(x, maxSamples) ==
    /\ dsp.live
    /\ dsp.n < maxSamples
    /\ LET y == FilterOut(x, dsp.z0)
           z == FilterState(x, y, dsp.z1) IN
       dsp' = [n |-> dsp.n + 1, x |-> x, y |-> y, out |-> Clip(Gain(y)),
               z0 |-> z[1], z1 |-> z[2], live |-> TRUE,
               steady |-> dsp.steady /\ x = MaxSample]
    /\ UNCHANGED <<lastProc, sessBase, present, skipped, shared, ctl, callSteps, rx, pb, starts,
                   arrivals, lastCall, emitted, logs, mons>>

(* ======================= time ======================= *)

RxBlocked(t) == rx[t].pc = "done" \/ (rx[t].pc = "recv" /\ ~rx[t].waited)

\* One poll period (0.5 s) passes.  A receive call that has waited a full period times out
\* before the next one passes, and the steps between two receive calls take no time.
Tick(maxIdle) ==
    /\ \A t \in RxIds : RxBlocked(t)
    /\ client # NoClient => client.idle < maxIdle /\ quiet < maxIdle
    /\ client' = IF client = NoClient THEN client ELSE [client EXCEPT !.idle = @ + 1]
    /\ quiet' = IF client = NoClient THEN quiet ELSE quiet + 1
    /\ rx' = [t \in RxIds |-> IF rx[t].pc = "recv" THEN [rx[t] EXCEPT !.waited = TRUE] ELSE rx[t]]
    /\ \E t \in RxIds : rx[t].pc = "recv"
    /\ emitted' = <<>>
    /\ UNCHANGED <<hist, state, running, socket, closed, filter_zi, last_seq, queue, sd_available,
                   ctl, callSteps, pb, starts, arrivals, lastCall, logs, mono, prevSeq, afterTimeout, handled>>

(* ======================= specifications ======================= *)

Control(maxStarts) ==
    \/ StartRejected \/ StartBegin(maxStarts) \/ StartReset \/ StartSocket \/ StartSocketFails
    \/ StartSpawnRx \/ StartSpawnPb \/ StartSpawnFails \/ StartDone \/ StartFail
    \/ StopRejected \/ StopBegin \/ StopFlag \/ StopSentinel \/ StopClose \/ StopJoin
    \/ StopDrainOne \/ StopDrainEnd \/ StopClear \/ StopDone

Receiver(t) ==
    \/ RxTop(t) \/ RxRecvTimeout(t) \/ RxRecvClosed(t) \/ RxHandle(t)
    \/ RxEvict(t) \/ RxEvictGet(t) \/ RxPut(t)

Playback(p) ==
    \/ PbNoDevice(p) \/ PbInit(p) \/ PbOpenFails(p) \/ PbLoop(p)
    \/ PbGet(p) \/ PbStarved(p) \/ PbProc(p) \/ PbWrite(p)

StartOk(maxStarts) ==
    StartBegin(maxStarts) \/ StartReset \/ StartSocket \/ StartSpawnRx \/ StartSpawnPb \/ StartDone

StopOk ==
    \/ StopBegin \/ StopFlag \/ StopSentinel \/ StopClose \/ StopJoin
    \/ StopDrainOne \/ StopDrainEnd \/ StopClear \/ StopDone

InitDevice == Init /\ sd_available

\* the whole server: every path of start() and stop(), restarts, both kinds of thread
Next ==
    \/ Control(MaxStarts)
    \/ \E t \in RxIds : Receiver(t) \/ RxRecvData(t, LifeSeqs, FlowAddrs, DLens, MaxPackets)
    \/ \E p \in PbIds : Playback(p)

Spec == Init /\ [][Next]_vars

\* one session in use: datagrams arrive, both threads run, start() is called again
NextBusy ==
    \/ StartOk(BusyStarts) \/ StartRejected
    \/ \E t \in RxIds : \/ RxTop(t) \/ RxHandle(t) \/ RxEvict(t) \/ RxPut(t)
                        \/ RxRecvData(t, LifeSeqs, FlowAddrs, DLens, BusyPackets)
    \/ \E p \in PbIds : PbInit(p) \/ PbOpenFails(p) \/ PbLoop(p) \/ PbGet(p) \/ PbStarved(p)
                        \/ PbProc(p) \/ PbWrite(p)

SpecBusy == InitDevice /\ [][NextBusy]_vars

\* the lifecycle: every path of start() and stop(), restarts, threads that start and end,
\* no datagrams
NextLife ==
    \/ Control(LifeStarts)
    \/ \E t \in RxIds : RxTop(t) \/ RxRecvClosed(t)
    \/ \E p \in PbIds : PbNoDevice(p) \/ PbInit(p) \/ PbOpenFails(p) \/ PbLoop(p) \/ PbGet(p) \/ PbStarved(p)

SpecLife == Init /\ [][NextLife]_vars

\* the receive path of one session: any sequence numbers, two senders, any datagram length
NextRecv ==
    \/ StartOk(OneSession)
    \/ \E t \in RxIds : \/ RxTop(t) \/ RxHandle(t) \/ RxEvict(t) \/ RxPut(t)
                        \/ RxRecvData(t, Seqs, Addrs, DLens, RecvPackets)

SpecRecv == InitDevice /\ [][NextRecv]_vars

\* client presence of one session: datagrams and the passing of time
NextTime ==
    \/ StartOk(OneSession)
    \/ \E t \in RxIds : \/ RxTop(t) \/ RxHandle(t) \/ RxEvict(t) \/ RxPut(t) \/ RxRecvTimeout(t)
                        \/ RxRecvData(t, TimeSeqs, Addrs, TimeDLens, TimePackets)
    \/ Tick(MaxIdle)

SpecTime == InitDevice /\ [][NextTime]_vars

\* the audio path of one session: increasing sequence numbers, receive and playback threads
NextFlow ==
    \/ StartOk(OneSession)
    \/ \E t \in RxIds : \/ RxTop(t) \/ RxHandle(t) \/ RxEvict(t) \/ RxEvictGet(t) \/ RxPut(t)
                        \/ RxRecvData(t, {arrivals + 1}, FlowAddrs, FlowDLens, FlowPackets)
    \/ \E p \in PbIds : PbInit(p) \/ PbLoop(p) \/ PbGet(p) \/ PbStarved(p) \/ PbProc(p) \/ PbWrite(p)

SpecFlow == InitDevice /\ [][NextFlow]_vars

\* the audio path with stop() and a restart
NextFlowStop ==
    \/ StartOk(FlowStarts) \/ StopOk
    \/ \E t \in RxIds : \/ RxTop(t) \/ RxHandle(t) \/ RxEvict(t) \/ RxEvictGet(t) \/ RxPut(t)
                        \/ RxRecvClosed(t)
                        \/ RxRecvData(t, {arrivals + 1}, FlowAddrs, FlowDLens, FlowPackets)
    \/ \E p \in PbIds : PbInit(p) \/ PbLoop(p) \/ PbGet(p) \/ PbStarved(p) \/ PbProc(p) \/ PbWrite(p)

SpecFlowStop == InitDevice /\ [][NextFlowStop]_vars

\* server.py:151-179  the steps of a stop() that is under way
StopRun ==
    \/ StopFlag \/ StopSentinel \/ StopClose \/ StopJoin
    \/ StopDrainOne \/ StopDrainEnd \/ StopClear \/ StopDone

\* stop() while packets arrive, where the thread that called stop() keeps running; the
\* receive and playback threads may stall for ever
NextHalt ==
    \/ StartOk(HaltStarts) \/ StopOk
    \/ \E t \in RxIds : \/ RxTop(t) \/ RxHandle(t) \/ RxEvict(t) \/ RxEvictGet(t) \/ RxPut(t)
                        \/ RxRecvClosed(t)
                        \/ RxRecvData(t, {arrivals + 1}, FlowAddrs, FlowDLens, HaltPackets)
    \/ \E p \in PbIds : PbInit(p) \/ PbLoop(p) \/ PbGet(p) \/ PbProc(p) \/ PbWrite(p)

SpecHalt == InitDevice /\ [][NextHalt]_vars /\ WF_vars(StopRun)

\* one session whose output device may be missing or fail to open, with datagrams from two
\* addresses and no stop()
NextDevice ==
    \/ StartOk(OneSession)
    \/ \E t \in RxIds : \/ RxTop(t) \/ RxHandle(t) \/ RxEvict(t) \/ RxEvictGet(t) \/ RxPut(t)
                        \/ RxRecvData(t, {arrivals + 1}, Addrs, FlowDLens, DevicePackets)
    \/ \E p \in PbIds : Playback(p)

SpecDevice == Init /\ [][NextDevice]_vars

\* the same session, where the receive call may also fail with a socket error
NextFaults ==
    \/ NextDevice
    \/ \E t \in RxIds : RxSocketError(t)

SpecFaults == Init /\ [][NextFaults]_vars

\* server.py:107-135  the steps of a start() that is under way
StartRun == StartReset \/ StartSocket \/ StartSpawnRx \/ StartSpawnPb \/ StartDone

\* the steps receive thread n takes by itself; the arrival of a datagram is not one of them
RxRun(n) ==
    /\ n \in RxIds
    /\ \/ RxTop(n) \/ RxRecvClosed(n) \/ RxHandle(n) \/ RxEvict(n) \/ RxEvictGet(n) \/ RxPut(n)

\* the steps playback thread n takes by itself
PbRun(n) ==
    /\ n \in PbIds
    /\ \/ PbInit(n) \/ PbLoop(n) \/ PbGet(n) \/ PbStarved(n) \/ PbProc(n) \/ PbWrite(n)

\* sessions one after the other, where every thread that can take a step takes one in the end
NextWind ==
    \/ StartOk(WindStarts) \/ StopOk
    \/ \E t \in RxIds : RxRun(t) \/ RxRecvData(t, {arrivals + 1}, FlowAddrs, FlowDLens, WindPackets)
    \/ \E p \in PbIds : PbRun(p)

SpecWind ==
    /\ InitDevice /\ [][NextWind]_vars
    /\ WF_vars(StartRun) /\ WF_vars(StopRun)
    /\ \A n \in 1..WindStarts : WF_vars(RxRun(n)) /\ WF_vars(PbRun(n))

\* the audio path of one session with payloads of even and of odd length
NextMeter ==
    \/ StartOk(OneSession)
    \/ \E t \in RxIds : \/ RxTop(t) \/ RxHandle(t) \/ RxEvict(t) \/ RxEvictGet(t) \/ RxPut(t)
                        \/ RxRecvData(t, {arrivals + 1}, FlowAddrs, MeterDLens, MeterPackets)
    \/ \E p \in PbIds : PbInit(p) \/ PbLoop(p) \/ PbGet(p) \/ PbStarved(p) \/ PbProc(p) \/ PbWrite(p)

SpecMeter == InitDevice /\ [][NextMeter]_vars

\* the same session, where a write to the output stream may also raise
NextSkip ==
    \/ StartOk(OneSession)
    \/ \E t \in RxIds : \/ RxTop(t) \/ RxHandle(t) \/ RxEvict(t) \/ RxEvictGet(t) \/ RxPut(t)
                        \/ RxRecvData(t, {arrivals + 1}, FlowAddrs, MeterDLens, SkipPackets)
    \/ \E p \in PbIds : \/ PbInit(p) \/ PbLoop(p) \/ PbGet(p) \/ PbStarved(p) \/ PbProc(p)
                        \/ PbWrite(p) \/ PbWriteFails(p)

SpecSkip == InitDevice /\ [][NextSkip]_vars

\* sessions that overlap: start() fails after the receive thread was started and is called
\* again, stop() is called at the end; increasing sequence numbers, datagrams go to the
\* newest receive thread
NextStale ==
    \/ StartOk(StaleStarts) \/ StartSpawnFails \/ StartFail
    \/ StopBegin \/ StopFlag \/ StopSentinel
    \/ \E t \in RxIds : RxTop(t) \/ RxHandle(t) \/ RxEvict(t) \/ RxEvictGet(t) \/ RxPut(t)
    \/ rx # <<>> /\ RxRecvData(Len(rx), {arrivals + 1}, FlowAddrs, FlowDLens, StalePackets)

SpecStale == InitDevice /\ [][NextStale]_vars

\* sessions one after the other on the receive side: stop(), start() again, datagrams with
\* any of two sequence numbers, receive threads that may outlive the join
NextSessions ==
    \/ StartOk(SessStarts) \/ StopOk
    \/ \E t \in RxIds : \/ RxTop(t) \/ RxHandle(t) \/ RxEvict(t) \/ RxPut(t) \/ RxRecvClosed(t)
                        \/ RxRecvData(t, LifeSeqs, FlowAddrs, FlowDLens, SessPackets)

SpecSessions == InitDevice /\ [][NextSessions]_vars

\* sessions one after the other on the playback side: stop(), start() again, increasing
\* sequence numbers, playback threads that may outlive the join
NextAgain ==
    \/ StartOk(AgainStarts) \/ StopOk
    \/ \E t \in RxIds : \/ RxTop(t) \/ RxHandle(t) \/ RxEvict(t) \/ RxPut(t) \/ RxRecvClosed(t)
                        \/ RxRecvData(t, {arrivals + 1}, FlowAddrs, FlowDLens, AgainPackets)
    \/ \E p \in PbIds : PbInit(p) \/ PbLoop(p) \/ PbGet(p) \/ PbProc(p) \/ PbWrite(p)

SpecAgain == InitDevice /\ [][NextAgain]_vars

\* start() and stop() where the state-change callback may call stop() from inside start()
NextNest ==
    \/ StartOk(NestStarts) \/ StopOk \/ StopFromCallback
    \/ \E t \in RxIds : \/ RxTop(t) \/ RxHandle(t) \/ RxEvict(t) \/ RxPut(t) \/ RxRecvClosed(t)
                        \/ RxRecvData(t, {arrivals + 1}, FlowAddrs, FlowDLens, NestPackets)
    \/ \E p \in PbIds : PbInit(p) \/ PbLoop(p) \/ PbGet(p)

SpecNest == InitDevice /\ [][NextNest]_vars

\* the sample pipeline on its own: samples of a session go through filter, gain and clip
NextGain ==
    \/ DspReset
    \/ \E x \in Samples : DspSample(x, GainSamples)

SpecGain == InitDevice /\ [][NextGain]_vars

(* ======================= properties ======================= *)

Last(q) == q[Len(q)]
IsPayload(x) == x # 0
QueueIds == SelectSeq([i \in 1..Len(queue) |-> queue[i].id], IsPayload)
Kept(i) == i \notin evicted /\ i \notin drained
Pos(q, x) == CHOOSE i \in 1..Len(q) : q[i] = x
Elems(q) == {q[i] : i \in 1..Len(q)}

\* thread t handles the datagram it received: lines 189-216
HandleStep(t) == t \in RxIds /\ rx[t].pc = "handle" /\ rx'[t].pc # "handle"
\* thread t leaves the push of line 225
PutStep(t) == t \in RxIds /\ rx[t].pc = "put" /\ rx'[t].pc # "put"

\* C1: a datagram of at least 4 bytes is rejected exactly when seq <= last_seq and
\* last_seq - seq < 1000; a rejected one changes neither last_seq nor the client, an accepted
\* one sets last_seq to seq and is counted for its sender
C1_DedupeRule ==
    [][\A t \in RxIds : HandleStep(t) /\ rx[t].pkt.dlen >= 4 =>
         LET p == rx[t].pkt IN
         IF p.seq <= last_seq /\ last_seq - p.seq < 1000
         THEN last_seq' = last_seq /\ client' = client /\ emitted' = <<>> /\ rx'[t].pc = "top"
         ELSE /\ last_seq' = p.seq
              /\ client' # client /\ client'.address = p.addr
              /\ p.dlen > 4 => rx'[t].pc = "evict"]_vars

C1_Witness ==
    /\ handled.dlen >= 4 /\ handled.seq < handled.last /\ handled.last - handled.seq >= 1000
    /\ last_seq = handled.seq

\* C2 as stated: with increasing sequence numbers and non-empty payloads every payload put on
\* the queue is taken by playback or still waiting, in arrival order
C2_Original == mono /\ state = "running" => enqLog = popLog \o QueueIds

\* C2 amended: the payloads not evicted by the drop-oldest loop are delivered at most once and
\* in arrival order, and nothing is evicted before four payloads have been queued
C2_DeliveredUnlessEvicted ==
    mono /\ state = "running" =>
        /\ SelectSeq(enqLog, Kept) = popLog \o QueueIds
        /\ evicted # {} => Len(enqLog) >= 4

C2_Witness == mono /\ state = "running" /\ evicted # {} /\ Len(popLog) >= 1 /\ Len(QueueIds) >= 1

\* C3: what playback takes from the queue is a subsequence of what the receive path put on it,
\* in the same order, and no payload is taken twice
C3_PlaybackSubsequence ==
    /\ Elems(popLog) \subseteq Elems(enqLog)
    /\ \A i, j \in 1..Len(popLog) :
         i < j => popLog[i] # popLog[j] /\ Pos(enqLog, popLog[i]) < Pos(enqLog, popLog[j])

C3_Witness == Len(popLog) >= 2 /\ evicted # {} /\ popLog[1] # enqLog[1]

\* C4: the jitter queue, payloads and sentinel together, never holds more entries than its
\* configured capacity
C4_QueueBounded == Len(queue) <= QueueMaxSize

C4_Witness ==
    /\ Len(queue) = QueueMaxSize /\ Last(queue).id = 0
    /\ \E t \in RxIds : rx[t].pc = "put"

\* C5: every push of an accepted non-empty payload succeeds and leaves that payload as the
\* newest entry of the queue
C5_PushNeverFails ==
    [][\A t \in RxIds : PutStep(t) => queue' # <<>> /\ Last(queue').id = rx[t].pkt.id]_vars

\* C6: a well-formed datagram from another address than the current client's makes one
\* disconnect callback for the old client, then one connect callback for the new one, and
\* the sender becomes the current client
C6_NewAddressCallbacks ==
    [][\A t \in RxIds :
         HandleStep(t) /\ rx[t].pkt.dlen >= 4 /\ rx[t].pkt.addr # client.address =>
            /\ emitted' = IF client = NoClient
                          THEN <<Ev("connect", rx[t].pkt.addr)>>
                          ELSE <<Ev("disconnect", client.address), Ev("connect", rx[t].pkt.addr)>>
            /\ client'.address = rx[t].pkt.addr]_vars

\* C7: while the server runs, a client from whose address nothing was received for more than
\* 3.0 s is dropped by the next poll timeout, so it is never present after 3.0 s and one more
\* poll period of silence
C7_SilentClientDropped ==
    state = "running" /\ client # NoClient => quiet <= ClientTimeout + 1

\* C8: the first well-formed datagram after a disconnect by timeout makes exactly one connect
\* callback, whatever its address and sequence number
C8_ConnectAfterTimeout ==
    [][\A t \in RxIds :
         HandleStep(t) /\ afterTimeout /\ rx[t].pkt.dlen >= 4 =>
            emitted' = <<Ev("connect", rx[t].pkt.addr)>>]_vars

Cycle == {<<"stopped", "starting">>, <<"starting", "running">>,
          <<"running", "stopping">>, <<"stopping", "stopped">>}

C10_StartRejectedNoop ==
    [][ctl = "idle" /\ state # "stopped" /\ lastCall'.op = "start" /\ lastCall' # lastCall =>
         /\ lastCall'.ret = "false"
         /\ UNCHANGED <<state, running, last_seq, filter_zi, socket, closed, rx, pb, queue, client>>
         /\ emitted' = <<>>]_vars

C10_Witness ==
    /\ lastCall = [op |-> "start", ret |-> "false"]
    /\ state = "running" /\ running /\ socket # 0
    /\ last_seq # -1 /\ client # NoClient /\ queue # <<>>

StartSteps == <<"starting", "reset", "socket", "rx", "pb", "running">>

\* C11: a start() called in state stopped returns success exactly when it ends in state
\* running, and then it has, in this order, set the state to starting, reset last_seq and the
\* filter state, bound the socket, spawned the receive thread and the playback thread, and set
\* the state to running
C11_StartOrder ==
    lastCall.op = "start" /\ ctl = "idle" /\ callSteps # <<>> =>
        /\ lastCall.ret = "true" <=> state = "running"
        /\ lastCall.ret = "true" =>
              /\ callSteps = StartSteps
              /\ running /\ socket = starts /\ socket \notin closed
              /\ Len(rx) >= 1 /\ Len(pb) >= 1

C11_Witness ==
    /\ lastCall = [op |-> "start", ret |-> "true"] /\ ctl = "idle"
    /\ callSteps = StartSteps /\ starts = 2 /\ Len(rx) = 2 /\ Len(pb) = 2

C13_StopRejectedNoop ==
    [][ctl = "idle" /\ state \notin {"running", "starting"} /\ lastCall'.op = "stop"
         /\ lastCall' # lastCall =>
         /\ lastCall'.ret = "ignored"
         /\ UNCHANGED <<state, running, last_seq, filter_zi, socket, closed, rx, pb, queue, client>>
         /\ emitted' = <<>>]_vars

C13_Witness ==
    /\ lastCall = [op |-> "stop", ret |-> "ignored"] /\ emitted = <<>>
    /\ state = "stopped" /\ socket # 0 /\ rx # <<>>

\* C14: when a stop() called in state running returns, the state is stopped, the running flag
\* is false, the socket is closed and unset, the queue is empty and there is no current client
C14_StoppedClean ==
    [][ctl = "stop_done" /\ ctl' = "idle" =>
         /\ state' = "stopped" /\ ~running'
         /\ socket' = 0
         /\ queue' = <<>>
         /\ client' = NoClient]_vars

\* C15: a stop() that has left state running always returns, with the state stopped, while
\* packets arrive and whether or not the receive and playback threads ever terminate
C15_StopTerminates ==
    lastCall = [op |-> "stop", ret |-> "pending"] ~>
        (lastCall = [op |-> "stop", ret |-> "done"] /\ state = "stopped")

C15_Witness ==
    /\ lastCall = [op |-> "stop", ret |-> "done"] /\ state = "stopped"
    /\ drained # {}
    /\ \E t \in RxIds : rx[t].pc # "done"
    /\ \E p \in PbIds : pb[p].pc # "done"

IsStateEv(e) == e.ev = "state"
IsErrorEv(e) == e.ev = "error"

\* C16: every step that changes the state invokes the state-change callback exactly once, with
\* the new state, and no other step invokes it
C16_StateCallbacks ==
    [][SelectSeq(emitted', IsStateEv) =
         IF state' # state THEN <<Ev("state", state')>> ELSE <<>>]_vars

C16_Witness ==
    /\ lastCall = [op |-> "stop", ret |-> "done"] /\ starts = 2
    /\ state = "stopped" /\ emitted = <<Ev("state", "stopped")>>

\* C17: the sentinel push of stop() always succeeds, and a playback thread that pops the
\* sentinel terminates
C17_SentinelPushed ==
    [][/\ ctl = "stop_sentinel" /\ ctl' # ctl => queue' = Append(queue, Sentinel)
       /\ \A p \in PbIds :
             pb[p].pc = "get" /\ pb'[p] # pb[p] /\ queue # <<>> /\ Head(queue) = Sentinel =>
                 pb'[p].pc = "done"]_vars

\* C18: a playback thread that ends before its loop, because the output device is unavailable
\* or fails to open, invokes the error callback
C18_DeviceErrorReported ==
    [][\A p \in PbIds :
         pb[p].pc = "init" /\ pb'[p].pc = "done" => SelectSeq(emitted', IsErrorEv) # <<>>]_vars

\* C19: once start() has returned and the playback thread has ended on a missing or failing
\* device, the state stays running, the running flag stays true, the socket stays open, the
\* receive thread stays alive, and every accepted payload is pushed into the queue, which
\* the drop-oldest loop keeps at 4 entries or fewer
C19_ReceiverSurvives ==
    /\ pb # <<>> /\ \A p \in PbIds : pb[p].pc = "done"
    /\ lastCall = [op |-> "start", ret |-> "true"]
    =>
    /\ state = "running" /\ running
    /\ socket # 0 /\ socket \notin closed
    /\ \A t \in RxIds : rx[t].pc # "done"
    /\ popLog = <<>>
    /\ Len(queue) <= EvictThreshold
    /\ Len(enqLog) = Len(queue) + Cardinality(evicted)

C19_Witness ==
    /\ pb # <<>> /\ \A p \in PbIds : pb[p].pc = "done"
    /\ lastCall = [op |-> "start", ret |-> "true"]
    /\ sd_available
    /\ Len(enqLog) = DevicePackets /\ evicted # {}
    /\ client.address = "B" /\ last_seq = DevicePackets

\* C20: a receive thread that ends on an error of the receive call reports the error
C20_SocketErrorReported ==
    [][\A t \in RxIds : rx[t].pc = "recv" /\ rx'[t].pc = "done" => emitted' # <<>>]_vars

\* the client record is assigned: it changes, other than by the passing of time
ClientWritten ==
    /\ client' # client
    /\ client # NoClient => client' # [client EXCEPT !.idle = @ + 1]

RxStepped == \E t \in RxIds : rx'[t] # rx[t]

\* C21 as stated: only a step of a receive thread writes the client record
C21_Original == [][ClientWritten => RxStepped]_vars

\* C21 amended: the client record is created and updated only by a step of a receive thread;
\* besides the receive thread only stop() writes it, once, to None, after the drain; no step
\* of a playback thread and no step of start() writes it
C21_ClientWriters ==
    [][ClientWritten =>
         \/ RxStepped /\ ctl' = ctl /\ pb' = pb
         \/ /\ callSteps' # callSteps /\ callSteps' # <<>> /\ Last(callSteps') = "clear"
            /\ client' = NoClient /\ rx' = rx /\ pb' = pb]_vars

C21_Witness ==
    /\ lastCall = [op |-> "stop", ret |-> "pending"] /\ Last(callSteps) = "clear"
    /\ client = NoClient /\ last_seq >= 0 /\ popLog # <<>>

\* the datagram is shorter than 4 bytes or the dedupe rule rejects its sequence number
Rejected(p, last) ==
    \/ p.dlen < MinDatagram
    \/ p.seq <= last /\ last - p.seq < ReorderWindow

\* C22: handling a rejected datagram leaves last_seq, the client record and the queue
\* unchanged and invokes no callback, whatever address it came from
C22_RejectedNoop ==
    [][\A t \in RxIds :
         HandleStep(t) /\ Rejected(rx[t].pkt, last_seq) =>
            /\ UNCHANGED <<last_seq, client, queue>>
            /\ emitted' = <<>>
            /\ rx'[t].pc = "top"]_vars

C22_Witness ==
    /\ handled # NoHandled /\ Rejected(handled, handled.last) /\ handled.dlen > MinDatagram
    /\ client # NoClient /\ handled.prev = client.address /\ handled.addr # client.address
    /\ last_seq = handled.last

\* C23: an accepted datagram of exactly 4 bytes sets last_seq, makes or refreshes the client
\* record (with a connect callback for a new address) and returns to the receive call without
\* touching the queue; only datagrams with payload bytes reach the push
C23_EmptyPayload ==
    [][\A t \in RxIds :
         /\ HandleStep(t) /\ rx[t].pkt.dlen = MinDatagram /\ ~Rejected(rx[t].pkt, last_seq) =>
              /\ last_seq' = rx[t].pkt.seq
              /\ client'.address = rx[t].pkt.addr /\ client'.idle = 0
              /\ client'.packet_count =
                    IF client.address = rx[t].pkt.addr THEN client.packet_count + 1 ELSE 1
              /\ client.address # rx[t].pkt.addr =>
                    emitted' # <<>> /\ Last(emitted') = Ev("connect", rx[t].pkt.addr)
              /\ queue' = queue
              /\ rx'[t].pc = "top"
         /\ PutStep(t) => rx[t].pkt.dlen > MinDatagram]_vars

C23_Witness ==
    /\ handled # NoHandled /\ handled.dlen = MinDatagram /\ ~Rejected(handled, handled.last)
    /\ last_seq = handled.seq /\ client.address = handled.addr /\ client.packet_count = 2
    /\ queue # <<>>

\* a receive call of thread t ends by timeout
TimeoutStep(t) == t \in RxIds /\ rx[t].pc = "recv" /\ rx'[t].pc = "top"

\* C24: the client is dropped without a datagram only by a receive call that timed out more
\* than 3.0 s after the last accepted datagram of the client, and the age of the client is
\* reset only by handling an accepted datagram from the client's own address
C24_TimeoutOnlyWhenStale ==
    [][/\ client # NoClient /\ client' = NoClient =>
            \E t \in RxIds : TimeoutStep(t) /\ rx[t].waited /\ client.idle > ClientTimeout
       /\ \A t \in RxIds : TimeoutStep(t) /\ client # NoClient /\ client.idle <= ClientTimeout =>
            client' = client /\ emitted' = <<>>
       /\ client # NoClient /\ client' # NoClient /\ client'.address = client.address
            /\ (client'.idle < client.idle \/ client'.packet_count # client.packet_count) =>
            \E t \in RxIds : /\ HandleStep(t) /\ ~Rejected(rx[t].pkt, last_seq)
                              /\ rx[t].pkt.addr = client.address]_vars

C24_Witness ==
    /\ afterTimeout /\ client = NoClient /\ emitted = <<Ev("disconnect", "A")>>
    /\ handled # NoHandled /\ handled.addr = "B" /\ handled.prev = "A"

PayloadCount(q) == Cardinality({i \in 1..Len(q) : q[i].id # 0})

\* C25: after every push by the receive path the queue holds at most 4 payloads, the pushed
\* payload being the newest
C25_FourAfterPush ==
    [][\A t \in RxIds :
         PutStep(t) => PayloadCount(queue') <= EvictThreshold /\ Last(queue').id = rx[t].pkt.id]_vars

StopSteps == <<"stopping", "flag", "sentinel", "close", "join", "drain", "clear", "stopped">>

StepDone(name) == callSteps' # callSteps /\ callSteps' # <<>> /\ Last(callSteps') = name

\* C26: a stop() that returns has set the state to stopping, cleared the running flag, pushed
\* the sentinel, closed the socket, joined the threads, drained the queue, cleared the client
\* and set the state to stopped, in this order; the running flag is false when the sentinel
\* is pushed and when the socket is closed, and the socket is closed when the drain begins
C26_StopOrder ==
    [][/\ lastCall.op = "stop" /\ StepDone("sentinel") => ~running /\ state = "stopping"
       /\ lastCall.op = "stop" /\ StepDone("close") => ~running /\ socket' = 0
       /\ lastCall.op = "stop" /\ StepDone("drain") => socket = 0 /\ queue = <<>>
       /\ lastCall.op = "stop" /\ StepDone("clear") => client' = NoClient
       /\ lastCall'.op = "stop" /\ lastCall'.ret = "done" /\ lastCall.ret = "pending" =>
            callSteps' = StopSteps /\ state' = "stopped"]_vars

C26_Witness ==
    /\ lastCall = [op |-> "stop", ret |-> "done"] /\ callSteps = StopSteps
    /\ drained # {} /\ closed # {} /\ state = "stopped"

\* stop() has cleared the running flag, pushed the sentinel and closed the socket
StopSignalled == lastCall.op = "stop" /\ Len(callSteps) >= 4

\* C27: every receive thread and every playback thread that exists when stop() has cleared
\* the running flag, pushed the sentinel and closed the socket terminates in the end
C27_ThreadsEnd ==
    \A n \in 1..WindStarts :
        /\ (StopSignalled /\ n <= Len(rx)) ~> (n <= Len(rx) /\ rx[n].pc = "done")
        /\ (StopSignalled /\ n <= Len(pb)) ~> (n <= Len(pb) /\ pb[n].pc = "done")

\* playback thread p finds the queue empty when its pop times out
StarvedStep(p) == p \in PbIds /\ pb[p].pc = "get" /\ pb'[p] # pb[p] /\ queue = <<>>
\* playback thread p has converted, filtered and metered the chunk it popped, or has failed to
ProcStep(p) == p \in PbIds /\ pb[p].pc = "proc" /\ pb'[p].pc # "proc"
\* playback thread p returns from stream.write
WriteStep(p) == p \in PbIds /\ pb[p].pc = "write" /\ pb'[p].pc # "write"

\* C28: a pop that times out on an empty queue invokes the level callback with 0.0 and
\* nothing else, writes nothing, leaves the filter state and the level counter as they were,
\* and goes back to the head of the loop
C28_StarvedLevelZero ==
    [][\A p \in PbIds :
         StarvedStep(p) =>
            /\ emitted' = <<Ev("level", "zero")>>
            /\ pb'[p] = [pb[p] EXCEPT !.pc = "loop"]
            /\ queue' = queue]_vars

C28_Witness ==
    /\ emitted = <<Ev("level", "zero")>>
    /\ \E p \in PbIds : pb[p].pc = "loop" /\ pb[p].level_counter = 1 /\ pb[p].filt > 0

IsChunkLevel(e) == e.ev = "level" /\ e.arg = "chunk"

\* C29: the level callback for a chunk is invoked exactly when the chunk is the 2nd, 4th,
\* 6th, ... successfully processed chunk of the playback thread, once, and every level value
\* reported, for a chunk or for starvation, lies between 0.0 and 1.0
C29_LevelEverySecond ==
    [][/\ \A i \in 1..Len(emitted') :
            emitted'[i].ev = "level" => emitted'[i].val >= 0 /\ emitted'[i].val <= LevelFull
       /\ SelectSeq(emitted', IsChunkLevel) # <<>> => \E p \in PbIds : ProcStep(p)
       /\ \A p \in PbIds :
            ProcStep(p) =>
               Len(SelectSeq(emitted', IsChunkLevel)) =
                  IF pb'[p].processed > pb[p].processed /\ pb'[p].processed % LevelEvery = 0
                  THEN 1 ELSE 0]_vars

C29_Witness ==
    /\ Len(popLog) = 3
    /\ \E p \in PbIds : pb[p].processed = 2 /\ pb[p].pc = "write"
    /\ emitted = <<EvLevel(popLog[3], LevelFull)>>

\* C30: a chunk is written to the output stream only while the running flag is set
C30_NoWriteAfterStop ==
    [][\A p \in PbIds : WriteStep(p) => running]_vars

\* the receive threads and the playback threads that are inside their loops
RxLooping == {t \in RxIds : rx[t].pc # "done"}
PbLooping == {p \in PbIds : pb[p].pc \in {"loop", "get", "proc", "write"}}

\* C33: at any time at most one receive thread and at most one playback thread execute
\* their loops, whatever the sequence of start() and stop() calls
C33_OneThreadEach ==
    Cardinality(RxLooping) <= 1 /\ Cardinality(PbLooping) <= 1

\* stop() has returned and start() has not been called since
StopReturned == lastCall = [op |-> "stop", ret |-> "done"] /\ ctl = "idle"

\* C34: from the return of stop() until the next call of start() the queue stays empty and
\* there is no current client
C34_QuietAfterStop ==
    StopReturned => queue = <<>> /\ client = NoClient

\* C36: whenever the state is stopped the running flag is false and there is no socket, also
\* after a start() that failed in the socket setup or while starting the threads
C36_StoppedIsIdle ==
    state = "stopped" => ~running /\ socket = 0

\* the processing of the chunk held by playback thread p raises: in the conversion of a
\* payload of odd length, or in the write to the output stream
ConvertRaises(p) == ProcStep(p) /\ pb[p].item.len % 2 # 0
WriteRaises(p) == WriteStep(p) /\ emitted' = <<>>

\* C40 as stated: whenever the processing of a popped payload raises, nothing is written for
\* it, the filter state and the level counter are those from before the payload, and the
\* loop goes on
C40_Original ==
    [][\A p \in PbIds :
         ConvertRaises(p) \/ WriteRaises(p) =>
            /\ emitted' = <<>>
            /\ pb'[p].pc = "loop"
            /\ pb'[p].filt # pb[p].item.id
            /\ ConvertRaises(p) => pb'[p].level_counter = pb[p].level_counter
            /\ WriteRaises(p) => pb'[p].level_counter = (pb[p].processed - 1) % LevelEvery]_vars

\* C40: a payload whose conversion raises is skipped with the filter state and the level
\* counter as they were before it; when the write raises, they are as the processing of the
\* payload left them; in both cases nothing is written and the loop goes on
C40_SkipsFailedPayload ==
    [][\A p \in PbIds :
         /\ ConvertRaises(p) =>
               pb'[p] = [pb[p] EXCEPT !.pc = "loop", !.item = Sentinel] /\ emitted' = <<>>
         /\ WriteRaises(p) =>
               /\ pb'[p] = [pb[p] EXCEPT !.pc = "loop", !.item = Sentinel]
               /\ pb[p].filt = pb[p].item.id
               /\ pb[p].level_counter = pb[p].processed % LevelEvery
               /\ pb[p].processed > 0]_vars

C40_Witness ==
    /\ \E a, b \in skipped : a.at = "convert" /\ b.at = "write"
    /\ \E p \in PbIds : pb[p].pc = "write" /\ pb[p].item.id \notin {e.id : e \in skipped}

HasSentinel(q) == \E i \in 1..Len(q) : q[i] = Sentinel

\* C39: the queue holds a sentinel only while the stop() that pushed it is under way and has
\* not drained the queue yet; so there is none when the state becomes running, and a
\* playback thread pops a sentinel only during a stop()
C39_NoStaleSentinel ==
    [][/\ HasSentinel(queue') =>
            state' = "stopping" /\ ctl' \in {"stop_close", "stop_join", "stop_drain"}
       /\ state' = "running" => ~HasSentinel(queue')
       /\ \A p \in PbIds :
            pb[p].pc = "get" /\ pb'[p].pc = "done" =>
               state = "stopping" /\ lastCall = [op |-> "stop", ret |-> "pending"]]_vars

C39_Witness ==
    /\ state = "running" /\ starts = 2 /\ Len(pb) = 2
    /\ pb[1].pc = "get" /\ pb[2].pc = "get"
    /\ queue = <<>>

\* the connect and disconnect callbacks in evs alternate, given the address pr that has a
\* connect outstanding ("none": the last one was a disconnect, or there was none yet)
RECURSIVE Alternates(_, _)
Alternates(pr, evs) ==
    IF evs = <<>> THEN TRUE
    ELSE IF Head(evs).ev = "connect"
         THEN pr = "none" /\ Alternates(Head(evs).arg, Tail(evs))
    ELSE IF Head(evs).ev = "disconnect"
         THEN pr = Head(evs).arg /\ Alternates("none", Tail(evs))
    ELSE Alternates(pr, Tail(evs))

\* C35: the connect and disconnect callbacks strictly alternate, starting with a connect,
\* also when stop() has cleared the client and a new session has started
C35_CallbacksAlternate ==
    [][Alternates(present, emitted')]_vars

\* C38: in every session the first well-formed datagram received after start() is accepted,
\* whatever its sequence number and whatever earlier sessions have seen
C38_FirstPacketAccepted ==
    [][\A t \in RxIds :
         HandleStep(t) /\ ~IsShort(rx[t].pkt.dlen) /\ rx[t].pkt.id = sessBase + 1 =>
            last_seq' = rx[t].pkt.seq /\ client'.address = rx[t].pkt.addr]_vars

\* C31: within one session every chunk is filtered with the state output by the chunk
\* processed before it, the first one with the state start() has set, and a playback thread
\* carries the state that it output itself
C31_FilterStateThreaded ==
    [][\A p \in PbIds :
         ProcStep(p) /\ pb[p].item.len % 2 = 0 =>
            /\ pb[p].filt = lastProc
            /\ pb'[p].filt = pb[p].item.id]_vars

\* a start() has returned during which stop() was called
StopRanInStart ==
    /\ lastCall.op = "start" /\ lastCall.ret # "pending" /\ ctl = "idle"
    /\ "stop" \in Elems(callSteps)

\* C37: when a stop() has run while start() was in state starting and both have returned,
\* the state is stopped, the running flag is false, the socket is closed and no thread runs
C37_StopDuringStart ==
    StopRanInStart =>
        /\ state = "stopped" /\ ~running /\ socket = 0
        /\ \A t \in RxIds : rx[t].pc = "done"
        /\ \A p \in PbIds : pb[p].pc = "done"

Written == dsp.live /\ dsp.n > 0

\* C32 as stated: every written sample lies in [-1.0, 1.0], an input sample of 32767 is
\* written as exactly 1.0 and a full-scale negative input sample as exactly -1.0
C32_Original ==
    Written =>
        /\ dsp.out >= -FullScale /\ dsp.out <= FullScale
        /\ dsp.x = MaxSample => dsp.out = FullScale
        /\ dsp.x = MinSample => dsp.out = -FullScale

\* C32: every written sample lies in [-1.0, 1.0]; a filtered sample of at least 0.25 is
\* written as exactly 1.0 and one of at most -0.25 as exactly -1.0, any other as 4 times its
\* value; an input that is 32767 from the start of the session is written as exactly 1.0
C32_GainClip ==
    Written =>
        /\ dsp.out >= -FullScale /\ dsp.out <= FullScale
        /\ VolumeGain * dsp.y >= FullScale => dsp.out = FullScale
        /\ VolumeGain * dsp.y <= -FullScale => dsp.out = -FullScale
        /\ (VolumeGain * dsp.y > -FullScale /\ VolumeGain * dsp.y < FullScale) =>
              dsp.out = VolumeGain * dsp.y
        /\ dsp.steady => dsp.out = FullScale

C32_Witness ==
    /\ Written /\ dsp.n >= 3
    /\ dsp.x = MinSample /\ dsp.y < -FullScale /\ dsp.out = -FullScale

====
